---- MODULE Spec2Model ----
(***************************************************************************)
(* upip: the install() resolver loop, install_pkg, url_open, install_tar,  *)
(* _makedirs and save_file of src/upip/upip.py as a state machine.         *)
(*                                                                         *)
(* Python str / bytes values are sequences of one-character strings, so    *)
(* that rstrip, split, startswith, endswith, "in" and slicing are computed *)
(* the way the code computes them.                                         *)
(***************************************************************************)
EXTENDS Integers, Sequences, FiniteSets, TLC

(***************************************************************************)
(* Bounds of the model.                                                    *)
(***************************************************************************)
\* longest to_install list handed to install()
MaxInitial == 2
\* longest archive handed to install_tar taken alone
MaxMembers == 2
\* install_tar taken alone: number of runs on one archive
MaxRuns == 2
\* url_open taken alone: lines of a response after its status line
MaxLines == 2
\* url_open taken alone: number of calls in the process
MaxCalls == 3

(***************************************************************************)
(* Program constants.                                                      *)
(***************************************************************************)
\* file_buf = bytearray(512)
FileBufSize == 512

(***************************************************************************)
(* String primitives (Python str/bytes methods used by the code).          *)
(***************************************************************************)
Min(a, b) == IF a < b THEN a ELSE b

\* characters str.rstrip() with no argument removes, among those of the model
Whitespace == {" ", "\t", "\n", "\r"}

\* s[i:] for a 0-based Python index i, 0 <= i
SliceFrom(s, i) == SubSeq(s, i + 1, Len(s))

\* s.startswith(p)
StartsWith(s, p) == Len(p) <= Len(s) /\ SubSeq(s, 1, Len(p)) = p

\* s.endswith(p)
EndsWith(s, p) == Len(p) <= Len(s) /\ SubSeq(s, Len(s) - Len(p) + 1, Len(s)) = p

\* p in s
Contains(s, p) == \E i \in 1..(Len(s) - Len(p) + 1) : SubSeq(s, i, i + Len(p) - 1) = p

\* s.index(c) as a 1-based position; 0 stands for the ValueError of a miss
IndexOf(s, c) ==
    IF \E i \in 1..Len(s) : s[i] = c
    THEN CHOOSE i \in 1..Len(s) : s[i] = c /\ \A j \in 1..(i - 1) : s[j] # c
    ELSE 0

\* s.rstrip(): drop the trailing run of whitespace
RECURSIVE RStrip(_)
RStrip(s) ==
    IF s # <<>> /\ s[Len(s)] \in Whitespace
    THEN RStrip(SubSeq(s, 1, Len(s) - 1))
    ELSE s

\* s.rstrip(c) for a single character c
RECURSIVE RStripChar(_, _)
RStripChar(s, c) ==
    IF s # <<>> /\ s[Len(s)] = c
    THEN RStripChar(SubSeq(s, 1, Len(s) - 1), c)
    ELSE s

\* s.split(c): always at least one piece, empty pieces kept
RECURSIVE Split(_, _)
Split(s, c) ==
    LET i == IndexOf(s, c)
    IN IF i = 0 THEN <<s>>
       ELSE <<SubSeq(s, 1, i - 1)>> \o Split(SubSeq(s, i + 1, Len(s)), c)

\* "/".join-like rebuilding is never used by the code; lists are sequences
\* x in lst
InList(x, lst) == \E i \in 1..Len(lst) : lst[i] = x

\* lst[:-1]
ButLast(lst) == IF lst = <<>> THEN <<>> ELSE SubSeq(lst, 1, Len(lst) - 1)

\* the elements of a list, as a set
Range(lst) == {lst[i] : i \in 1..Len(lst)}

(***************************************************************************)
(* Literals of the code.                                                   *)
(***************************************************************************)
\* "setup."
PrefixSetup == <<"s", "e", "t", "u", "p", ".">>

\* "PKG-INFO"
PrefixPkgInfo == <<"P", "K", "G", "-", "I", "N", "F", "O">>

\* "README"
PrefixReadme == <<"R", "E", "A", "D", "M", "E">>

\* ".egg-info"
EggInfo == <<".", "e", "g", "g", "-", "i", "n", "f", "o">>

\* "/requires.txt"
RequiresSuffix == <<"/", "r", "e", "q", "u", "i", "r", "e", "s", ".", "t", "x", "t">>

\* the tuple without its first entry
MetaPrefixes_NoSetup == <<PrefixPkgInfo, PrefixReadme>>

\* the tuple the classification loop of install_tar runs over
MetaPrefixes == <<PrefixSetup, PrefixPkgInfo, PrefixReadme>>

\* tarfile.DIRTYPE and the type of every other member
DIRTYPE == "dir"

REGTYPE == "file"

(***************************************************************************)
(* Exceptions in flight.                                                   *)
(***************************************************************************)
NoExc == [type |-> "none", arg |-> "", origin |-> "none"]

Exc(type, arg, origin) == [type |-> type, arg |-> arg, origin |-> origin]

Raised(e) == e.type # "none"

(***************************************************************************)
(* The file system the code writes to.  dirs: the directories that exist,  *)
(* files: path -> content.  A relative path is relative to the working     *)
(* directory (the empty path), "/" is the root; both always exist.         *)
(***************************************************************************)
\* head of op_split: the directory a path lies in
ParentDir(path) ==
    LET slashes == {i \in 1..Len(path) : path[i] = "/"}
    IN IF slashes = {} THEN <<>>
       ELSE LET k == CHOOSE i \in slashes : \A j \in slashes : j <= i
            IN IF k = 1 THEN <<"/">> ELSE SubSeq(path, 1, k - 1)

DirExists(dirs, d) == d = <<>> \/ d = <<"/">> \/ d \in dirs

\* os.mkdir(s): "ok", or the errno of the OSError.  emptyErr is what the
\* platform answers for the empty path (ENOENT under POSIX, EEXIST where the
\* empty path names the current directory).
MkdirResult(dirs, files, s, emptyErr) ==
    IF s = <<>> THEN emptyErr
    ELSE IF DirExists(dirs, s) \/ s \in DOMAIN files THEN "EEXIST"
    ELSE IF ~DirExists(dirs, ParentDir(s)) THEN "ENOENT"
    ELSE "ok"

\* open(fname, "wb"): "ok", or the errno of the OSError
OpenResult(dirs, files, fname) ==
    IF fname = <<>> THEN "ENOENT"
    ELSE IF fname[Len(fname)] = "/" \/ DirExists(dirs, fname) THEN "EISDIR"
    ELSE IF ~DirExists(dirs, ParentDir(fname)) THEN "ENOENT"
    ELSE "ok"

\* files with fname holding content
WriteFile(files, fname, content) ==
    [f \in DOMAIN files \cup {fname} |-> IF f = fname THEN content ELSE files[f]]

(***************************************************************************)
(* _makedirs(name): create the ancestors of a *file* name.                 *)
(* st = [dirs, files, log, meta, exc, cur]; cur is the member at work and  *)
(* log the file-system calls made, each with the member that caused it.    *)
(***************************************************************************)
\* a handler that tolerates no errno
Tolerated_None(r) == FALSE

\* except OSError as e: if e.args[0] != errno.EEXIST and e.args[0] != errno.EISDIR: raise
Tolerated(r) == r = "EEXIST" \/ r = "EISDIR"

RECURSIVE MakedirsLoop(_, _, _, _, _)
MakedirsLoop(comps, i, s, st, emptyErr) ==
    IF i > Len(comps) THEN st
    ELSE LET s1 == (IF s # <<>> THEN s \o <<"/">> ELSE s) \o comps[i]
             r == MkdirResult(st.dirs, st.files, s1, emptyErr)
             logged == [st EXCEPT !.log = @ \cup {[op |-> "mkdir", path |-> s1, member |-> st.cur]}]
         IN IF r = "ok"
            THEN MakedirsLoop(comps, i + 1, s1, [logged EXCEPT !.dirs = @ \cup {s1}], emptyErr)
            ELSE IF ~Tolerated(r)
            THEN [logged EXCEPT !.exc = Exc("OSError", r, "_makedirs")]
            ELSE MakedirsLoop(comps, i + 1, s1, logged, emptyErr)

Makedirs(name, st, emptyErr) ==
    MakedirsLoop(ButLast(Split(RStripChar(name, "/"), "/")), 1, <<>>, st, emptyErr)

(***************************************************************************)
(* save_file(fname, subf): copy the sub-stream through file_buf.           *)
(***************************************************************************)
\* a copy that reads the sub-stream once
CopyLoop_OneRead(rest, written) == written \o SubSeq(rest, 1, Min(FileBufSize, Len(rest)))

RECURSIVE CopyLoop(_, _)
CopyLoop(rest, written) ==
    LET sz == Min(FileBufSize, Len(rest))
    IN IF sz = 0 THEN written
       ELSE CopyLoop(SliceFrom(rest, sz), written \o SubSeq(rest, 1, sz))

SaveFile(fname, data, st) ==
    LET r == OpenResult(st.dirs, st.files, fname)
        logged == [st EXCEPT !.log = @ \cup {[op |-> "open", path |-> fname, member |-> st.cur]}]
    IN IF r # "ok"
       THEN [logged EXCEPT !.exc = Exc("OSError", r, "save_file")]
       ELSE [logged EXCEPT !.files = WriteFile(@, fname, CopyLoop(data, <<>>))]

(***************************************************************************)
(* install_tar(f, prefix).                                                 *)
(***************************************************************************)
\* fname = info.name[info.name.index("/") + 1:], "" when there is no "/"
RelName(name) ==
    LET i == IndexOf(name, "/")
    IN IF i = 0 THEN <<>> ELSE SliceFrom(name, i)

\* the for-loop over ("setup.", "PKG-INFO", "README"): TRUE when it clears save
RECURSIVE SkipScan(_, _)
SkipScan(fname, k) ==
    IF k > Len(MetaPrefixes) THEN FALSE
    ELSE IF StartsWith(fname, MetaPrefixes[k]) \/ Contains(fname, EggInfo) THEN TRUE
    ELSE SkipScan(fname, k + 1)

IsSkipped(fname) == SkipScan(fname, 1)

EmptyMeta == [present |-> FALSE, deps |-> <<>>]

\* a harvest that keeps the first requires.txt of an archive
SetDeps_KeepFirst(meta, data) == IF meta.present THEN meta ELSE [present |-> TRUE, deps |-> data]

\* meta["deps"] = f.extractfile(info).read()
SetDeps(meta, data) == [present |-> TRUE, deps |-> data]

\* the body of the loop over the members, for one member
TarMember(info, prefix, st0, emptyErr) ==
    LET st == [st0 EXCEPT !.cur = info.name]
        fname == RelName(info.name)
    IN IF IsSkipped(fname)
       THEN LET noted == [st EXCEPT !.log = @ \cup {[op |-> "skip", path |-> fname, member |-> info.name]}]
            IN IF EndsWith(fname, RequiresSuffix)
               THEN [noted EXCEPT !.meta = SetDeps(@, info.data)]
               ELSE noted
       ELSE IF info.type # DIRTYPE
            THEN LET outfname == prefix \o fname
                     made == Makedirs(outfname, st, emptyErr)
                 IN IF Raised(made.exc) THEN made ELSE SaveFile(outfname, info.data, made)
            ELSE st

\* The iterator (the archive reader over the decompressor over the socket)
\* raises when asked for member `bad` (0: it never does)
ReaderRaises(i, bad) == i = bad

\* a loop that passes over a member the reader fails at and goes on
RECURSIVE TarLoop_Swallow(_, _, _, _, _, _)
TarLoop_Swallow(members, i, bad, prefix, st, emptyErr) ==
    IF i > Len(members) THEN st
    ELSE IF ReaderRaises(i, bad) THEN TarLoop_Swallow(members, i + 1, bad, prefix, st, emptyErr)
    ELSE LET st1 == TarMember(members[i], prefix, st, emptyErr)
         IN IF Raised(st1.exc) THEN st1
            ELSE TarLoop_Swallow(members, i + 1, bad, prefix, st1, emptyErr)

\* members 1..Len(members) in order; an exception ends the loop
RECURSIVE TarLoop(_, _, _, _, _, _)
TarLoop(members, i, bad, prefix, st, emptyErr) ==
    IF i > Len(members) THEN st
    ELSE IF ReaderRaises(i, bad) THEN [st EXCEPT !.exc = Exc("OSError", "corrupt stream", "tarfile")]
    ELSE LET st1 == TarMember(members[i], prefix, st, emptyErr)
         IN IF Raised(st1.exc) THEN st1
            ELSE TarLoop(members, i + 1, bad, prefix, st1, emptyErr)

InstallTar(members, bad, prefix, dirs, files, log, emptyErr) ==
    TarLoop(members, 1, bad, prefix,
            [dirs |-> dirs, files |-> files, log |-> log, meta |-> EmptyMeta,
             exc |-> NoExc, cur |-> <<>>],
            emptyErr)

(***************************************************************************)
(* url_open(url): the connection, the one-time warning, the status line    *)
(* and the header block.  A response is [status, complete]: the status     *)
(* token of its first line, and whether a blank line ends its headers      *)
(* before the stream ends.                                                 *)
(***************************************************************************)
Msg(text, pkg) == [text |-> text, pkg |-> pkg]

\* the exception url_open raises for a status other than 200
StatusError(status) == Exc("ValueError", status, "url_open")

\* a flag that is never cleared
WarnAfter_Keep(proto, warn) == warn

\* warn_ussl after the call: cleared by the first https connection
WarnAfter(proto, warn) == IF proto = "https:" THEN FALSE ELSE warn

UrlOpen(proto, host, resp, warn) ==
    LET warned == IF proto = "https:" /\ warn
                  THEN <<Msg("Warning: SSL certificate is not validated", host)>>
                  ELSE <<>>
        warn1 == WarnAfter(proto, warn)
    IN IF resp.status # "200"
       THEN [exc |-> StatusError(resp.status),
             warn |-> warn1,
             out |-> warned \o (IF resp.status = "404"
                                THEN <<Msg("Package not found", <<>>)>> ELSE <<>>)]
       ELSE IF ~resp.complete
       THEN [exc |-> Exc("ValueError", "Unexpected EOF", "url_open"), warn |-> warn1, out |-> warned]
       ELSE [exc |-> NoExc, warn |-> warn1, out |-> warned]

(***************************************************************************)
(* What the package index and the archive server answer for one package:   *)
(* the input of one install_pkg call.                                      *)
(*   meta     response to the GET of /pypi/<name>/json                     *)
(*   json_ok  whether its body parses                                      *)
(*   npkgs    len(data["releases"][latest_ver])                            *)
(*   proto    scheme of packages[0]["url"]                                 *)
(*   arch     response to the GET of the archive                           *)
(*   members  the entries of the archive, bad: the entry the reader        *)
(*            raises at (0: none)                                          *)
(***************************************************************************)
RespOK == [status |-> "200", complete |-> TRUE]

BadResponses ==
    { [status |-> "404", complete |-> TRUE],
      [status |-> "500", complete |-> TRUE],
      [status |-> "200", complete |-> FALSE] }

Member(name, type, data) == [name |-> name, type |-> type, data |-> data]

\* "pypi.python.org", the host of the index (and, here, of the archives)
IndexHost == <<"p", "y", "p", "i", ".", "p", "y", "t", "h", "o", "n", ".", "o", "r", "g">>

\* get_pkg_metadata(name)
GetPkgMetadata(env, warn) ==
    LET f == UrlOpen("https:", IndexHost, env.meta, warn)
    IN IF Raised(f.exc) THEN f
       ELSE IF ~env.json_ok
       THEN [f EXCEPT !.exc = Exc("ValueError", "syntax error in JSON", "json.loads")]
       ELSE f

\* a check that lets any number of artifacts through
OneArtifact_Any(n) == TRUE

\* assert len(packages) == 1
OneArtifact(n) == n = 1

\* a connection url_open made: for which package, to what ("json": the
\* metadata of the index, "archive": an artifact), and to which artifact of
\* the release (1: packages[0]; 0 for the metadata)
Conn(pkg, what, artifact) == [pkg |-> pkg, what |-> what, artifact |-> artifact]

\* install_pkg(pkg_spec, install_path): what it raises or returns, and the
\* state it leaves
InstallPkg(pkg, prefix, env, dirs, files, log, warn, emptyErr) ==
    LET data == GetPkgMetadata(env, warn)
        base == [exc |-> data.exc, meta |-> EmptyMeta, dirs |-> dirs, files |-> files,
                 log |-> log, warn |-> data.warn, out |-> data.out,
                 conns |-> <<Conn(pkg, "json", 0)>>]
    IN IF Raised(data.exc) THEN base
       ELSE IF ~OneArtifact(env.npkgs)
       THEN [base EXCEPT !.exc = Exc("AssertionError", "", "install_pkg")]
       ELSE LET f1 == UrlOpen(env.proto, IndexHost, env.arch, data.warn)
                told == [base EXCEPT !.out = @ \o <<Msg("Installing", pkg)>> \o f1.out,
                                     !.warn = f1.warn,
                                     !.conns = @ \o <<Conn(pkg, "archive", 1)>>]
            IN IF Raised(f1.exc) THEN [told EXCEPT !.exc = f1.exc]
               ELSE LET t == InstallTar(env.members, env.bad, prefix, dirs, files, log, emptyErr)
                    IN [told EXCEPT !.exc = t.exc, !.meta = t.meta, !.dirs = t.dirs,
                                    !.files = t.files, !.log = t.log]

\* cleanup_files = []
CleanupFiles == <<>>

\* debug = False
Debug == FALSE

\* cleanup(): os.unlink of every entry of cleanup_files, a failure is a warning
RECURSIVE Cleanup(_, _, _)
Cleanup(i, files, out) ==
    IF i > Len(CleanupFiles) THEN [files |-> files, out |-> out]
    ELSE IF CleanupFiles[i] \in DOMAIN files
    THEN Cleanup(i + 1, [f \in DOMAIN files \ {CleanupFiles[i]} |-> files[f]], out)
    ELSE Cleanup(i + 1, files, out \o <<Msg("Warning: Cannot delete", CleanupFiles[i])>>)

(***************************************************************************)
(* The inputs the model draws from.                                        *)
(***************************************************************************)
PkgA == <<"A">>

PkgB == <<"B">>

PkgC == <<"C">>

PkgD == <<"D">>

\* names a caller asks for
InitialNames == {PkgA, PkgB}

\* install_path arguments: a relative root without the trailing "/", an
\* absolute root with it
PathLib == <<"l", "i", "b">>

PathOpt == <<"/", "o", "p", "t", "/">>

InstallPaths == {PathLib, PathOpt}

\* directories that exist before the run
DirOpt == <<"/", "o", "p", "t">>

InitialDirs == {DirOpt}

\* archive member names
NameRoot == <<"p", "/">>

NameSetup == <<"p", "/", "s", "e", "t", "u", "p", ".", "p", "y">>

NamePkgInfo == <<"p", "/", "P", "K", "G", "-", "I", "N", "F", "O">>

NameReadme == <<"p", "/", "R", "E", "A", "D", "M", "E", ".", "m", "d">>

NameRequires == <<"p", "/", "p", ".", "e", "g", "g", "-", "i", "n", "f", "o", "/", "r", "e", "q", "u", "i", "r", "e", "s", ".", "t", "x", "t">>

NameMod == <<"p", "/", "m", ".", "p", "y">>

NameSubdir == <<"p", "/", "a", "/">>

NameNested == <<"p", "/", "a", "/", "b", ".", "p", "y">>

\* requires.txt payloads: "B\nC\n", "B\n", "D", "A\n", "B\n\nC\n", "B\r\nC\r\n"
BlobBC == <<"B", "\n", "C", "\n">>

BlobB == <<"B", "\n">>

BlobD == <<"D">>

BlobA == <<"A", "\n">>

BlobBlank == <<"B", "\n", "\n", "C", "\n">>

BlobCRLF == <<"B", "\r", "\n", "C", "\r", "\n">>

MRoot == Member(NameRoot, DIRTYPE, <<>>)

MSetup == Member(NameSetup, REGTYPE, <<"s">>)

MPkgInfo == Member(NamePkgInfo, REGTYPE, <<"i">>)

MReadme == Member(NameReadme, REGTYPE, <<"r">>)

MMod == Member(NameMod, REGTYPE, <<"x">>)

MSubdir == Member(NameSubdir, DIRTYPE, <<>>)

MNested == Member(NameNested, REGTYPE, <<"y", "z">>)

MRequires(blob) == Member(NameRequires, REGTYPE, blob)

ArchPlain == <<MRoot, MMod, MSetup>>

ArchBC == <<MRoot, MPkgInfo, MRequires(BlobBC), MSubdir, MNested>>

ArchB == <<MSetup, MRequires(BlobB), MMod>>

ArchD == <<MMod, MRequires(BlobD), MReadme>>

ArchA == <<MRequires(BlobA), MNested>>

ArchBlank == <<MRequires(BlobBlank), MMod>>

ArchCRLF == <<MRequires(BlobCRLF), MMod>>

\* the archives the index may hold for a name; it holds no package whose
\* name is empty or ends in whitespace (the names a blob with a blank line or
\* CRLF line ends yields): their lookup fails
Catalog(pkg) ==
    IF pkg = PkgA THEN {ArchBC, ArchB, ArchA, ArchBlank, ArchCRLF}
    ELSE IF pkg = PkgB THEN {ArchPlain, ArchD, ArchA}
    ELSE IF pkg = PkgC THEN {ArchPlain, ArchB, ArchA}
    ELSE IF pkg = PkgD THEN {ArchPlain, ArchB}
    ELSE {}

EnvOK == [meta |-> RespOK, json_ok |-> TRUE, npkgs |-> 1, proto |-> "https:",
          arch |-> RespOK, members |-> <<>>, bad |-> 0]

\* every answer for a name: a failure of one stage, or an archive (sound, or
\* corrupt at one of its entries)
Envs(pkg) ==
    {[EnvOK EXCEPT !.meta = r] : r \in BadResponses}
    \cup {[EnvOK EXCEPT !.json_ok = FALSE]}
    \cup {[EnvOK EXCEPT !.npkgs = n] : n \in {0, 2}}
    \cup {[EnvOK EXCEPT !.arch = r] : r \in BadResponses}
    \cup {[EnvOK EXCEPT !.arch = [status |-> "404", complete |-> TRUE], !.proto = "http:"]}
    \cup UNION {{[EnvOK EXCEPT !.members = a, !.bad = b] : b \in 0..Len(a)} : a \in Catalog(pkg)}

(***************************************************************************)
(* Inputs of install_tar taken alone: archives of up to MaxMembers members *)
(* over TarPool, read to the end or up to a member the reader raises at.   *)
(***************************************************************************)
\* "p": a name with no "/"
NameBare == <<"p">>
\* "p/a/requires.txt": a requires.txt outside the packaging metadata
NamePlainReq == <<"p", "/", "a", "/", "r", "e", "q", "u", "i", "r", "e", "s", ".", "t", "x", "t">>
\* "p/big.bin"
NameBig == <<"p", "/", "b", "i", "g", ".", "b", "i", "n">>

\* a payload of two full buffers and one byte
BigData == [i \in 1..(2 * FileBufSize + 1) |-> IF i % 2 = 1 THEN "a" ELSE "b"]

MBare == Member(NameBare, REGTYPE, <<"h">>)
MPlainReq == Member(NamePlainReq, REGTYPE, BlobBC)
MModNew == Member(NameMod, REGTYPE, <<"w">>)
MBig == Member(NameBig, REGTYPE, BigData)

TarPool ==
    {MRoot, MBare, MSetup, MRequires(BlobB), MRequires(BlobD), MPlainReq, MMod, MModNew,
     MSubdir, MNested, MBig}

TarArchives == UNION {[1..n -> TarPool] : n \in 0..MaxMembers}

\* the outcome of a run: what it raised, what it returned, what it left
Outcome(e, meta, dirs, files) == [exc |-> e, meta |-> meta, dirs |-> dirs, files |-> files]
NoOutcome == Outcome(NoExc, EmptyMeta, {}, <<>>)

(***************************************************************************)
(* url_open(url) line by line.  The response is the sequence of the lines  *)
(* the socket delivers (s.readline() returns the next one, b"" at the end  *)
(* of the stream); conn tells how the connection went: "ok", "refused"     *)
(* (getaddrinfo or connect raises) or "handshake" (ussl.wrap_socket        *)
(* raises).                                                                *)
(***************************************************************************)
RECURSIVE LStrip(_)
LStrip(t) == IF t # <<>> /\ t[1] \in Whitespace THEN LStrip(Tail(t)) ELSE t

\* index of the first whitespace character of t, 0 when it has none
FirstSpace(t) ==
    LET ws == {i \in 1..Len(t) : t[i] \in Whitespace}
    IN IF ws = {} THEN 0 ELSE CHOOSE i \in ws : \A j \in ws : i <= j

\* l.split(None, maxsplit): split at runs of whitespace, at most maxsplit
\* times; what is left after the last split is one token, unless it is
\* empty or whitespace only
RECURSIVE SplitWs(_, _)
SplitWs(t, maxsplit) ==
    LET u == LStrip(t)
        k == FirstSpace(u)
    IN IF u = <<>> THEN <<>>
       ELSE IF maxsplit = 0 \/ k = 0 THEN <<u>>
       ELSE <<SubSeq(u, 1, k - 1)>> \o SplitWs(SliceFrom(u, k), maxsplit - 1)

\* s.readline() at position pos (the number of lines read so far)
ReadLine(lines, pos) == IF pos < Len(lines) THEN lines[pos + 1] ELSE <<>>

\* b"\r\n"
CRLF == <<"\r", "\n">>
\* b"200", b"404"
Status200 == <<"2", "0", "0">>
Status404 == <<"4", "0", "4">>

\* while 1: l = s.readline(); if not l: raise; if l == b"\r\n": break
\* the position after the blank line, 0 when the stream ends before it
RECURSIVE HeaderLoop(_, _)
HeaderLoop(lines, pos) ==
    LET l == ReadLine(lines, pos)
    IN IF l = <<>> THEN 0
       ELSE IF l = CRLF THEN pos + 1
       ELSE HeaderLoop(lines, pos + 1)

UrlOpenStream(proto, host, conn, lines, warn) ==
    LET none == [exc |-> NoExc, warn |-> warn, out |-> <<>>, returned |-> FALSE, pos |-> 0]
        secure == proto = "https:"
        warned == IF secure /\ warn
                  THEN <<Msg("Warning: SSL certificate is not validated", host)>>
                  ELSE <<>>
        open == [none EXCEPT !.warn = IF secure THEN WarnAfter(proto, warn) ELSE warn,
                             !.out = warned]
        toks == SplitWs(ReadLine(lines, 0), 2)
        status == toks[2]
        body == HeaderLoop(lines, 1)
    IN IF conn = "refused" THEN [none EXCEPT !.exc = Exc("OSError", "connect", "usocket")]
       ELSE IF secure /\ conn = "handshake"
       THEN [none EXCEPT !.exc = Exc("OSError", "handshake", "ussl")]
       ELSE IF Len(toks) # 3
       THEN [open EXCEPT !.exc = Exc("ValueError", "unpack", "url_open"),
                         !.pos = Min(1, Len(lines))]
       ELSE IF status # Status200
       THEN [open EXCEPT !.exc = Exc("ValueError", "status", "url_open"),
                         !.out = @ \o (IF status = Status404
                                       THEN <<Msg("Package not found", <<>>)>> ELSE <<>>),
                         !.pos = 1]
       ELSE IF body = 0
       THEN [open EXCEPT !.exc = Exc("ValueError", "Unexpected EOF", "url_open"),
                         !.pos = Len(lines)]
       ELSE [open EXCEPT !.returned = TRUE, !.pos = body]

(***************************************************************************)
(* Inputs of url_open taken alone.                                         *)
(***************************************************************************)
\* b"HTTP/1.0 200 OK\r\n"
LineOK == <<"H", "T", "T", "P", "/", "1", ".", "0", " ", "2", "0", "0", " ", "O", "K", "\r", "\n">>
\* b"HTTP/1.0 404 Not Found\r\n"
LineNotFound == <<"H", "T", "T", "P", "/", "1", ".", "0", " ", "4", "0", "4", " ", "N", "o", "t", " ", "F", "o", "u", "n", "d", "\r", "\n">>
\* b"HTTP/1.0 200 \r\n": a status line with an empty reason phrase
LineNoReason == <<"H", "T", "T", "P", "/", "1", ".", "0", " ", "2", "0", "0", " ", "\r", "\n">>
\* b"HTTP/1.0 20": the stream ends within the status line
LineCut == <<"H", "T", "T", "P", "/", "1", ".", "0", " ", "2", "0">>
\* b"Server: x\r\n"
LineHeader == <<"S", "e", "r", "v", "e", "r", ":", " ", "x", "\r", "\n">>
\* b"{}\n": a line of the body
LineBody == <<"{", "}", "\n">>

StatusLines == {LineOK, LineNotFound, LineNoReason}

\* what may follow the status line
Tails == UNION {[1..n -> {LineHeader, CRLF, LineBody}] : n \in 0..MaxLines}

Responses == {<<>>, <<LineCut>>} \cup {<<l>> \o t : l \in StatusLines, t \in Tails}

Request(proto, conn, lines) == [proto |-> proto, conn |-> conn, lines |-> lines]

Requests ==
    {Request(proto, "ok", lines) : proto \in {"http:", "https:"}, lines \in Responses}
    \cup {Request(proto, "refused", <<>>) : proto \in {"http:", "https:"}}
    \cup {Request("https:", "handshake", <<>>)}

\* url_open taken alone: no request made yet, nothing returned yet
NoRequest == Request("", "", <<>>)
NoResult == [returned |-> FALSE, pos |-> 0, exc |-> NoExc]

\* the to_install argument: a list, or a single name
InstallArgs ==
    {[is_list |-> TRUE, val |-> l] : l \in UNION {[1..n -> InitialNames] : n \in 0..MaxInitial}}
    \cup {[is_list |-> FALSE, val |-> n] : n \in InitialNames}

(***************************************************************************)
(* State.                                                                  *)
(***************************************************************************)
VARIABLES
    pc,            \* where the run is: idle, loop, raised, returned, uncaught, exited
    to_install,    \* the work queue of install()
    installed,     \* the installed list of install()
    install_path,  \* install_path of install(), "/"-terminated
    pkg_spec,      \* the name last popped
    exc,           \* the exception raised in the run, NoExc if none
    warn_ussl,     \* the module's one-time warning flag
    dirs, files,   \* the file system
    mkdir_empty,   \* the errno this platform answers to os.mkdir("")
    out,           \* what was printed
    exit_status,   \* exit status of the process, -1 while it runs
    initial,       \* history: the list install() was called with
    fetched,       \* history: the names install_pkg was called with, in order
    declared,      \* history: name -> the dependency blob install_pkg returned for it
    popped,        \* history: number of to_install.pop(0) calls
    log,           \* history: file-system calls and skips, with their member
    last_env,      \* history: what the servers answered to the last install_pkg
    conns,         \* history: the connections url_open made, in order
    tar_members,   \* install_tar alone: the members of the archive
    tar_bad,       \*   the member its reader raises at (0: none)
    tar_meta,      \*   the meta dict of the last run
    tar_runs,      \*   number of runs so far
    tar_first,     \*   history: outcome of the first run
    tar_cur,       \*   history: the member the last run ended at
    url_req,       \* url_open alone: the request at hand, [proto, conn, lines]
    url_res,       \*   its outcome
    url_calls      \*   history: the calls so far, in order

envhist == <<last_env, conns>>
tarvars == <<tar_members, tar_bad, tar_meta, tar_runs, tar_first, tar_cur>>
urlvars == <<url_req, url_res, url_calls>>

vars == <<pc, to_install, installed, install_path, pkg_spec, exc, warn_ussl, dirs, files,
          mkdir_empty, out, exit_status, initial, fetched, declared, popped, log,
          envhist, tarvars, urlvars>>

(***************************************************************************)
(* install(): the lines after install_pkg returns.                         *)
(***************************************************************************)
\* meta.get("deps", "")
MetaDeps(meta) == IF meta.present THEN meta.deps ELSE <<>>

\* deps = meta.get("deps", "").rstrip(); if deps: deps.decode("utf-8").split("\n")
Harvest(meta) ==
    LET deps == RStrip(MetaDeps(meta))
    IN IF deps = <<>> THEN <<>> ELSE Split(deps, "\n")

\* an extend that keeps only the first harvested name
Extend_FirstOnly(queue, deps) == IF deps = <<>> THEN queue ELSE Append(queue, deps[1])

\* an extend that leaves out the names already queued or installed
Extend_Dedup(queue, deps) ==
    LET Fresh(d) == ~InList(d, queue) /\ ~InList(d, installed)
    IN queue \o SelectSeq(deps, Fresh)

\* an extend that puts the harvested names in front of the queue
Extend_AtFront(queue, deps) == deps \o queue

\* to_install.extend(deps)
Extend(queue, deps) == queue \o deps

\* a membership test that only looks at the package installed last
AlreadyInstalled_LastOnly(pkg, done) == done # <<>> /\ done[Len(done)] = pkg

\* pkg_spec in installed
AlreadyInstalled(pkg, done) == InList(pkg, done)

(***************************************************************************)
(* The state after the module is loaded.                                   *)
(***************************************************************************)
Init ==
    /\ pc = "idle"
    /\ to_install = <<>>
    /\ installed = <<>>
    /\ install_path = <<>>
    /\ pkg_spec = <<>>
    /\ exc = NoExc
    /\ warn_ussl = TRUE
    /\ dirs = InitialDirs
    /\ files = <<>>
    /\ mkdir_empty \in {"ENOENT", "EEXIST"}
    /\ out = <<>>
    /\ exit_status = -1
    /\ initial = <<>>
    /\ fetched = <<>>
    /\ declared = <<>>
    /\ popped = 0
    /\ log = {}
    /\ last_env = EnvOK
    /\ conns = <<>>
    /\ tar_members = <<>>
    /\ tar_bad = 0
    /\ tar_meta = EmptyMeta
    /\ tar_runs = 0
    /\ tar_first = NoOutcome
    /\ tar_cur = <<>>
    /\ url_req = NoRequest
    /\ url_res = NoResult
    /\ url_calls = <<>>

(***************************************************************************)
(* install(to_install, install_path): up to the loop.                      *)
(***************************************************************************)
\* if install_path[-1] != "/": install_path += "/"
WithSlash(path) == IF path[Len(path)] # "/" THEN path \o <<"/">> ELSE path

\* if not isinstance(to_install, list): to_install = [to_install]
AsList(arg) == IF arg.is_list THEN arg.val ELSE <<arg.val>>

Install ==
    /\ pc = "idle"
    /\ \E arg \in InstallArgs, path \in InstallPaths :
          /\ install_path' = WithSlash(path)
          /\ to_install' = AsList(arg)
          /\ initial' = AsList(arg)
          /\ out' = out \o <<Msg("Installing to", WithSlash(path))>>
    /\ installed' = <<>>
    /\ pc' = "loop"
    /\ UNCHANGED <<pkg_spec, exc, warn_ussl, dirs, files, mkdir_empty, exit_status,
                   fetched, declared, popped, log>>
    /\ UNCHANGED <<envhist, tarvars, urlvars>>

(***************************************************************************)
(* One iteration of "while to_install".                                    *)
(***************************************************************************)
\* a skip that leaves the name at the head of the queue
Skip_NoPop ==
    /\ pc = "loop"
    /\ to_install # <<>>
    /\ AlreadyInstalled(Head(to_install), installed)
    /\ UNCHANGED vars

\* pkg_spec = to_install.pop(0); if pkg_spec in installed: continue
Skip ==
    /\ pc = "loop"
    /\ to_install # <<>>
    /\ AlreadyInstalled(Head(to_install), installed)
    /\ pkg_spec' = Head(to_install)
    /\ to_install' = Tail(to_install)
    /\ popped' = popped + 1
    /\ UNCHANGED <<pc, installed, install_path, exc, warn_ussl, dirs, files, mkdir_empty,
                   out, exit_status, initial, fetched, declared, log>>
    /\ UNCHANGED <<envhist, tarvars, urlvars>>

\* pkg_spec = to_install.pop(0); meta = install_pkg(pkg_spec, install_path);
\* installed.append(pkg_spec); to_install.extend(deps)
InstallOne ==
    /\ pc = "loop"
    /\ to_install # <<>>
    /\ ~AlreadyInstalled(Head(to_install), installed)
    /\ \E env \in Envs(Head(to_install)) :
          LET pkg == Head(to_install)
              r == InstallPkg(pkg, install_path, env, dirs, files, log, warn_ussl, mkdir_empty)
              deps == Harvest(r.meta)
          IN /\ pkg_spec' = pkg
             /\ popped' = popped + 1
             /\ fetched' = Append(fetched, pkg)
             /\ warn_ussl' = r.warn
             /\ dirs' = r.dirs
             /\ files' = r.files
             /\ log' = r.log
             /\ out' = out \o r.out
             /\ exc' = r.exc
             /\ last_env' = env
             /\ conns' = conns \o r.conns
             /\ IF Raised(r.exc)
                THEN /\ pc' = "raised"
                     /\ to_install' = Tail(to_install)
                     /\ UNCHANGED <<installed, declared>>
                ELSE /\ pc' = "loop"
                     /\ installed' = Append(installed, pkg)
                     /\ to_install' = Extend(Tail(to_install), deps)
                     /\ declared' = [n \in DOMAIN declared \cup {pkg} |->
                                        IF n = pkg THEN MetaDeps(r.meta) ELSE declared[n]]
    /\ UNCHANGED <<install_path, mkdir_empty, exit_status, initial>>
    /\ UNCHANGED <<tarvars, urlvars>>

\* the while condition fails: install() returns
Return ==
    /\ pc = "loop"
    /\ to_install = <<>>
    /\ pc' = "returned"
    /\ UNCHANGED <<to_install, installed, install_path, pkg_spec, exc, warn_ussl, dirs, files,
                   mkdir_empty, out, exit_status, initial, fetched, declared, popped, log>>
    /\ UNCHANGED <<envhist, tarvars, urlvars>>

(***************************************************************************)
(* "except NotFoundError": the only handler of install().                  *)
(***************************************************************************)
\* "Error: cannot find '%s' package (or server error), packages may be
\* partially installed"
ErrorText == "Error: cannot find package (or server error), packages may be partially installed"

\* a handler inside the loop: the loop goes on after a failure
Except_Resume ==
    /\ pc = "raised"
    /\ pc' = "loop"
    /\ UNCHANGED <<to_install, installed, install_path, pkg_spec, exc, warn_ussl, dirs, files,
                   mkdir_empty, out, exit_status, initial, fetched, declared, popped, log>>
    /\ UNCHANGED <<envhist, tarvars, urlvars>>

\* a handler that removes what the run wrote
Except_Rollback ==
    /\ pc = "raised"
    /\ pc' = "uncaught"
    /\ files' = <<>>
    /\ UNCHANGED <<to_install, installed, install_path, pkg_spec, exc, warn_ussl, dirs,
                   mkdir_empty, out, exit_status, initial, fetched, declared, popped, log>>
    /\ UNCHANGED <<envhist, tarvars, urlvars>>

Except ==
    /\ pc = "raised"
    /\ IF exc.type = "NotFoundError"
       THEN /\ out' = out \o <<Msg(ErrorText, pkg_spec)>>
            /\ pc' = "returned"
       ELSE /\ pc' = "uncaught"
            /\ out' = out
    /\ UNCHANGED <<to_install, installed, install_path, pkg_spec, exc, warn_ussl, dirs, files,
                   mkdir_empty, exit_status, initial, fetched, declared, popped, log>>
    /\ UNCHANGED <<envhist, tarvars, urlvars>>

(***************************************************************************)
(* The caller: after install() returns the cleanup runs and the process    *)
(* ends with status 0; an exception nobody caught ends it with status 1.   *)
(***************************************************************************)
Exit ==
    /\ pc \in {"returned", "uncaught"}
    /\ pc' = "exited"
    /\ IF pc = "uncaught"
       THEN /\ exit_status' = 1
            /\ UNCHANGED <<files, out>>
       ELSE LET c == IF ~Debug THEN Cleanup(1, files, out) ELSE [files |-> files, out |-> out]
            IN /\ exit_status' = 0
               /\ files' = c.files
               /\ out' = c.out
    /\ UNCHANGED <<to_install, installed, install_path, pkg_spec, exc, warn_ussl, dirs,
                   mkdir_empty, initial, fetched, declared, popped, log>>
    /\ UNCHANGED <<envhist, tarvars, urlvars>>

Next == Install \/ Skip \/ InstallOne \/ Return \/ Except \/ Exit

Spec == Init /\ [][Next]_vars

\* The process is single-threaded and runs on: as long as a step of the
\* program is possible one is taken (every fetch and extraction returns or
\* raises).
SpecLive == Init /\ [][Next]_vars /\ WF_vars(Next)

(***************************************************************************)
(* install_tar taken alone: one archive, extracted into one destination    *)
(* up to MaxRuns times.                                                    *)
(***************************************************************************)
InitTar ==
    /\ pc = "tar"
    /\ to_install = <<>>
    /\ installed = <<>>
    /\ install_path \in {WithSlash(path) : path \in InstallPaths}
    /\ pkg_spec = <<>>
    /\ exc = NoExc
    /\ warn_ussl = TRUE
    /\ dirs = InitialDirs
    /\ files = <<>>
    /\ mkdir_empty \in {"ENOENT", "EEXIST"}
    /\ out = <<>>
    /\ exit_status = -1
    /\ initial = <<>>
    /\ fetched = <<>>
    /\ declared = <<>>
    /\ popped = 0
    /\ log = {}
    /\ last_env = EnvOK
    /\ conns = <<>>
    /\ tar_members \in TarArchives
    /\ tar_bad \in 0..Len(tar_members)
    /\ tar_meta = EmptyMeta
    /\ tar_runs = 0
    /\ tar_first = NoOutcome
    /\ tar_cur = <<>>
    /\ url_req = NoRequest
    /\ url_res = NoResult
    /\ url_calls = <<>>

\* meta = install_tar(f, install_path), or the exception it raises
Extract ==
    /\ pc = "tar"
    /\ tar_runs < MaxRuns
    /\ LET t == InstallTar(tar_members, tar_bad, install_path, dirs, files, log, mkdir_empty)
       IN /\ dirs' = t.dirs
          /\ files' = t.files
          /\ log' = t.log
          /\ exc' = t.exc
          /\ tar_meta' = t.meta
          /\ tar_cur' = t.cur
          /\ tar_first' = IF tar_runs = 0 THEN Outcome(t.exc, t.meta, t.dirs, t.files)
                                          ELSE tar_first
    /\ tar_runs' = tar_runs + 1
    /\ UNCHANGED <<pc, to_install, installed, install_path, pkg_spec, warn_ussl, mkdir_empty,
                   out, exit_status, initial, fetched, declared, popped, envhist,
                   tar_members, tar_bad, urlvars>>

NextTar == Extract

SpecTar == InitTar /\ [][NextTar]_vars

(***************************************************************************)
(* url_open taken alone: up to MaxCalls calls in one process, each stream  *)
(* closed before the next call.                                            *)
(***************************************************************************)
InitUrl ==
    /\ pc = "url"
    /\ to_install = <<>>
    /\ installed = <<>>
    /\ install_path = <<>>
    /\ pkg_spec = <<>>
    /\ exc = NoExc
    /\ warn_ussl = TRUE
    /\ dirs = InitialDirs
    /\ files = <<>>
    /\ mkdir_empty = "ENOENT"
    /\ out = <<>>
    /\ exit_status = -1
    /\ initial = <<>>
    /\ fetched = <<>>
    /\ declared = <<>>
    /\ popped = 0
    /\ log = {}
    /\ last_env = EnvOK
    /\ conns = <<>>
    /\ tar_members = <<>>
    /\ tar_bad = 0
    /\ tar_meta = EmptyMeta
    /\ tar_runs = 0
    /\ tar_first = NoOutcome
    /\ tar_cur = <<>>
    /\ url_req = NoRequest
    /\ url_res = NoResult
    /\ url_calls = <<>>

\* f = url_open(url), or the exception it raises
UrlCall ==
    /\ pc = "url"
    /\ Len(url_calls) < MaxCalls
    /\ \E req \in Requests :
          LET r == UrlOpenStream(req.proto, IndexHost, req.conn, req.lines, warn_ussl)
          IN /\ url_req' = req
             /\ url_res' = [returned |-> r.returned, pos |-> r.pos, exc |-> r.exc]
             /\ warn_ussl' = r.warn
             /\ out' = out \o r.out
             /\ exc' = r.exc
             /\ url_calls' = Append(url_calls,
                                    [proto |-> req.proto, conn |-> req.conn,
                                     printed |-> r.out])
    /\ pc' = "url_open"
    /\ UNCHANGED <<to_install, installed, install_path, pkg_spec, dirs, files, mkdir_empty,
                   exit_status, initial, fetched, declared, popped, log, envhist, tarvars>>

\* f.close() of the caller, or the exception taken by the caller
UrlClose ==
    /\ pc = "url_open"
    /\ pc' = "url"
    /\ url_req' = NoRequest
    /\ url_res' = NoResult
    /\ exc' = NoExc
    /\ UNCHANGED <<to_install, installed, install_path, pkg_spec, warn_ussl, dirs, files,
                   mkdir_empty, out, exit_status, initial, fetched, declared, popped, log,
                   envhist, tarvars, url_calls>>

NextUrl == UrlCall \/ UrlClose

SpecUrl == InitUrl /\ [][NextUrl]_vars

(***************************************************************************)
(* Notions the properties are stated in.                                   *)
(***************************************************************************)
\* the run ended with an empty queue and no failure
Succeeded == pc \in {"returned", "exited"} /\ ~Raised(exc)

\* the run was aborted by a failure
Aborted == Raised(exc)

NoDuplicates(lst) == \A i, j \in 1..Len(lst) : i # j => lst[i] # lst[j]

\* the names a dependency blob declares: its lines, trailing whitespace
\* trimmed, the empty ones dropped
DeclaredNames(blob) ==
    LET lines == Split(blob, "\n")
    IN {RStrip(lines[i]) : i \in 1..Len(lines)} \ {<<>>}

\* the declared dependencies of a name whose archive has been unpacked
DepsOf(n) == IF n \in DOMAIN declared THEN DeclaredNames(declared[n]) ELSE {}

\* the closure of a set of names under the declared dependencies
RECURSIVE Closure(_)
Closure(S) ==
    LET T == S \cup UNION {DepsOf(n) : n \in S}
    IN IF T = S THEN S ELSE Closure(T)

(***************************************************************************)
(* C1: in one run install_pkg is called at most once for every name: a     *)
(* name dequeued while already installed is dropped without a fetch, and a *)
(* failed attempt is not retried.                                          *)
(***************************************************************************)
C1_FetchedAtMostOnce ==
    /\ NoDuplicates(fetched)
    /\ Len(fetched) <= popped
    /\ Aborted => fetched # <<>> /\ fetched[Len(fetched)] = pkg_spec
                  /\ ~InList(pkg_spec, installed)

\* B was queued twice (by A and by C), fetched once, and its second entry dropped
C1_Witness ==
    /\ Succeeded
    /\ installed = <<PkgA, PkgB, PkgC>>
    /\ fetched = installed
    /\ popped = 4

(***************************************************************************)
(* C2: when the run ends with an empty queue and no failure, the installed *)
(* names are exactly the closure of the initial names under the declared   *)
(* dependencies.                                                           *)
(***************************************************************************)
C2_InstalledIsClosure ==
    Succeeded => Range(installed) = Closure(Range(initial))

\* A -> {B, C}, C -> {B}, B -> {} from [A]
C2_Witness ==
    /\ Succeeded
    /\ initial = <<PkgA>>
    /\ Range(installed) = {PkgA, PkgB, PkgC}
    /\ declared[PkgA] = BlobBC
    /\ declared[PkgC] = BlobB
    /\ declared[PkgB] = <<>>

(***************************************************************************)
(* C3: the resolver is FIFO, breadth-first.                                *)
(***************************************************************************)
\* the names of a blob in blob order, as its lines
NamesInOrder(blob) ==
    LET d == RStrip(blob)
    IN IF d = <<>> THEN <<>> ELSE Split(d, "\n")

\* everything ever put in the queue, in the order it was put there, after
\* the first k installed packages were unpacked
RECURSIVE EnqueuedUpTo(_)
EnqueuedUpTo(k) ==
    IF k = 0 THEN initial
    ELSE EnqueuedUpTo(k - 1) \o NamesInOrder(declared[installed[k]])

\* the queue is what was put in it, in that order, less the entries taken
\* from its head
QueueIsFifo ==
    LET all == EnqueuedUpTo(Len(installed))
    IN /\ popped <= Len(all)
       /\ to_install = SubSeq(all, popped + 1, Len(all))
       /\ popped > 0 => pkg_spec = all[popped]

\* breadth-first distance of a name from the initial names, -1 if unreachable
RECURSIVE LevelOf(_, _, _)
LevelOf(n, S, k) ==
    IF n \in S THEN k
    ELSE LET T == S \cup UNION {DepsOf(x) : x \in S}
         IN IF T = S THEN -1 ELSE LevelOf(n, T, k + 1)

Depth(n) == LevelOf(n, Range(initial), 0)

\* position of an installed name in the order of installation
Pos(n) == CHOOSE i \in 1..Len(installed) : installed[i] = n

\* g entered the queue for the first time when d was unpacked
FirstDiscoveredThrough(g, d) ==
    /\ g \notin Range(initial)
    /\ d \in Range(installed)
    /\ g \in DepsOf(d)
    /\ \A e \in Range(installed) : g \in DepsOf(e) => Pos(d) <= Pos(e)

\* C3 as claimed: every direct dependency of a package is installed before
\* any package first discovered through one of those dependencies.
C3_SiblingsBeforeGrandchildren ==
    \A P \in Range(installed) : \A d1, d2 \in DepsOf(P) : \A g \in Range(installed) :
        (g # P /\ g \notin DepsOf(P) /\ d2 # P /\ FirstDiscoveredThrough(g, d1))
            => (d2 \in Range(installed) /\ Pos(d2) < Pos(g))

\* C3 as amended: the queue head is always the next package taken and the
\* harvested names are appended at the tail in blob order, so packages are
\* installed in non-decreasing breadth-first distance from the initial names,
\* and every direct dependency of a package is installed before any package
\* first discovered through one of those dependencies that is itself unpacked
\* after the package.
C3_FifoBreadthFirst ==
    /\ QueueIsFifo
    /\ \A i, j \in 1..Len(installed) :
          i < j => Depth(installed[i]) >= 0 /\ Depth(installed[i]) <= Depth(installed[j])
    /\ \A P \in Range(installed) : \A d1, d2 \in DepsOf(P) : \A g \in Range(installed) :
          (g # P /\ g \notin DepsOf(P) /\ d2 # P /\ FirstDiscoveredThrough(g, d1)
             /\ Pos(P) < Pos(d1))
              => (d2 \in Range(installed) /\ Pos(d2) < Pos(g))

\* A -> {B, C}, B -> {D}: the grandchild D comes after both children
C3_Witness ==
    /\ initial = <<PkgA>>
    /\ installed = <<PkgA, PkgB, PkgC, PkgD>>
    /\ declared[PkgA] = BlobBC
    /\ declared[PkgB] = BlobD

(***************************************************************************)
(* C4: when the lookup or the fetch of a queued package fails the run is   *)
(* aborted at once: from then on nothing is dequeued, looked up,           *)
(* downloaded or extracted, whatever the queue still holds.                *)
(***************************************************************************)
C4_NothingAfterFailure ==
    [][Aborted => /\ popped' = popped
                  /\ pkg_spec' = pkg_spec
                  /\ to_install' = to_install
                  /\ fetched' = fetched
                  /\ installed' = installed
                  /\ log' = log]_vars

\* the index answered 404 while the queue still held names
C4_Witness ==
    /\ pc = "exited"
    /\ exc = StatusError("404")
    /\ installed # <<>>
    /\ to_install # <<>>

(***************************************************************************)
(* C5: every fatal condition of a run is reported by install() as a single *)
(* message that names the offending package and says that packages may be  *)
(* partially installed, and the process ends with a non-zero status.       *)
(***************************************************************************)
C5_FatalIsReported ==
    (pc = "exited" /\ Aborted) =>
        /\ exit_status # 0
        /\ Cardinality({i \in 1..Len(out) : out[i] = Msg(ErrorText, pkg_spec)}) = 1

(***************************************************************************)
(* C6: url_open raises a NotFound condition for status 404 and another,    *)
(* generic condition carrying the status for any other status but 200.     *)
(***************************************************************************)
C6_NotFoundIsDistinguished ==
    (Aborted /\ exc.origin = "url_open" /\ exc.arg # "Unexpected EOF") =>
        IF exc.arg = "404"
        THEN exc.type = "NotFoundError"
        ELSE exc.type # "NotFoundError" /\ exc.arg # "200"

(***************************************************************************)
(* C7: an aborted run leaves every file written before the failure as it   *)
(* is: nothing is deleted or changed by the abort.                         *)
(***************************************************************************)
C7_NoRollback ==
    [][Aborted => files' = files /\ dirs' = dirs]_vars

\* A was installed, B failed in mid-extraction after one of its files was
\* written; both files are there when the process has ended
C7_Witness ==
    /\ pc = "exited"
    /\ Aborted
    /\ exc.origin = "tarfile"
    /\ installed = <<PkgA>>
    /\ pkg_spec = PkgB
    /\ DOMAIN files = {install_path \o RelName(NameNested), install_path \o RelName(NameMod)}
    /\ \E e \in log : e.op = "open" /\ e.path = install_path \o RelName(NameMod)

(***************************************************************************)
(* C8: the names put in the queue from a dependency blob are non-empty and *)
(* carry no trailing whitespace.                                           *)
(***************************************************************************)
C8_QueuedNamesAreTrimmed ==
    \A i \in 1..Len(to_install) :
        /\ to_install[i] # <<>>
        /\ to_install[i][Len(to_install[i])] \notin Whitespace

(***************************************************************************)
(* C9: the queue and the installed list.                                   *)
(***************************************************************************)
\* the i-th queue entry was put there by a dependency expansion
FromDeps(i) == i > Len(initial) - popped

\* C9 as claimed: a harvested name is queued only if it is neither installed
\* nor queued, so the queue never holds an installed name, nor a name twice
\* because of a dependency expansion.
C9_QueueHoldsOnlyFreshNames ==
    \A i \in 1..Len(to_install) :
        FromDeps(i) =>
            /\ ~InList(to_install[i], installed)
            /\ \A j \in 1..Len(to_install) : j # i => to_install[j] # to_install[i]

\* C9 as amended: every harvested name is appended to the queue, installed
\* or queued or not; an entry whose name is installed is dropped when it is
\* dequeued, so that no name is installed twice.
C9_DedupAtDequeue ==
    [][/\ installed' # installed =>
             to_install' = Tail(to_install) \o NamesInOrder(declared'[Head(to_install)])
       /\ (popped' # popped /\ InList(Head(to_install), installed)) =>
             (installed' = installed /\ fetched' = fetched /\ to_install' = Tail(to_install))
       /\ NoDuplicates(installed')]_vars

\* a name harvested from a blob sits in the queue while it is installed
C9_Witness ==
    \E i \in 1..Len(to_install) : FromDeps(i) /\ InList(to_install[i], installed)

(***************************************************************************)
(* C10: install_tar creates no directory and writes no file for a member   *)
(* whose relative path starts with "setup.", "PKG-INFO" or "README" or     *)
(* contains ".egg-info".                                                   *)
(***************************************************************************)
MetadataOnly(rel) ==
    \/ StartsWith(rel, PrefixSetup)
    \/ StartsWith(rel, PrefixPkgInfo)
    \/ StartsWith(rel, PrefixReadme)
    \/ Contains(rel, EggInfo)

C10_MetadataNeverWritten ==
    \A e \in log :
        MetadataOnly(RelName(e.member)) =>
            /\ e.op = "skip"
            /\ (install_path \o RelName(e.member)) \notin DOMAIN files
            /\ (install_path \o RelName(e.member)) \notin dirs

\* an archive with <root>/setup.py and <root>/p.egg-info/requires.txt was
\* unpacked: both were passed over, the blob was kept, the module written
C10_Witness ==
    /\ installed = <<PkgA>>
    /\ declared[PkgA] = BlobB
    /\ \E e \in log : e.op = "skip" /\ e.member = NameSetup
    /\ \E e \in log : e.op = "skip" /\ e.member = NameRequires
    /\ (install_path \o RelName(NameMod)) \in DOMAIN files

(***************************************************************************)
(* Properties of install_pkg within the resolver (Spec).                   *)
(***************************************************************************)
\* the answers e let install_pkg reach the extraction
ExtractionReached(e) ==
    e.meta = RespOK /\ e.json_ok /\ e.npkgs = 1 /\ e.arch = RespOK

\* C18: when the archive reader or the decompressor raises while
\* install_tar iterates, nothing is swallowed: the members before the
\* failure are processed as in a sound archive, no further member is
\* processed and no further file written, the exception leaves
\* install_pkg, and the package is not added to installed, then or later.
C18_ReaderFailureStops ==
    [][ /\ (fetched' # fetched /\ ExtractionReached(last_env') /\ last_env'.bad > 0) =>
              LET e == last_env'
                  sound == InstallTar(SubSeq(e.members, 1, e.bad - 1), 0, install_path,
                                      dirs, files, log, mkdir_empty)
              IN /\ files' = sound.files
                 /\ dirs' = sound.dirs
                 /\ log' = sound.log
                 /\ Raised(exc')
                 /\ ~Raised(sound.exc) => exc'.origin = "tarfile"
                 /\ pc' = "raised"
                 /\ installed' = installed
                 /\ ~InList(pkg_spec', installed')
        /\ exc.origin = "tarfile" =>
              /\ installed' = installed
              /\ files' = files
              /\ dirs' = dirs
              /\ pc' \in {"uncaught", "exited"}
      ]_vars

\* the reader failed at the third member of the archive of the second
\* package, after a file of it was written; the run is over
C18_Witness ==
    /\ pc = "exited"
    /\ exc.origin = "tarfile"
    /\ last_env.bad = 3
    /\ Len(installed) = 1
    /\ ~InList(pkg_spec, installed)
    /\ \E e \in log : e.op = "open" /\ e.member = last_env.members[2].name

\* C19: install_pkg downloads the archive from the URL of the only
\* artifact of the latest release; when the release does not list exactly
\* one artifact it fails before an archive connection is opened: nothing
\* is extracted and the package is not recorded as installed.
C19_OneArtifactOrNothing ==
    [][ (fetched' # fetched /\ last_env'.meta = RespOK /\ last_env'.json_ok) =>
           IF last_env'.npkgs = 1
           THEN conns' = conns \o <<Conn(pkg_spec', "json", 0), Conn(pkg_spec', "archive", 1)>>
           ELSE /\ conns' = conns \o <<Conn(pkg_spec', "json", 0)>>
                /\ Raised(exc')
                /\ pc' = "raised"
                /\ files' = files
                /\ dirs' = dirs
                /\ log' = log
                /\ installed' = installed
                /\ ~InList(pkg_spec', installed')
      ]_vars

\* a release with two artifacts, met after another package was downloaded
\* and installed: the run is over and no archive connection was made for it
C19_Witness ==
    /\ pc = "exited"
    /\ exc.type = "AssertionError"
    /\ last_env.npkgs = 2
    /\ Len(installed) = 1
    /\ ~InList(pkg_spec, installed)
    /\ conns = <<Conn(installed[1], "json", 0), Conn(installed[1], "archive", 1),
                 Conn(pkg_spec, "json", 0)>>

\* C20: for every finite dependency graph, cycles and self-dependencies
\* included, the resolver loop terminates when every fetch and extraction
\* returns: the loop is left, with the queue empty and each package
\* installed once unless a step raised.
C20_LoopTerminates ==
    (pc = "loop") ~>
        /\ pc # "loop"
        /\ ~Raised(exc) => to_install = <<>> /\ NoDuplicates(installed)

\* A depends on B and B on A: both installed once, the second A skipped
C20_Witness ==
    /\ pc = "exited"
    /\ ~Raised(exc)
    /\ to_install = <<>>
    /\ installed = <<PkgA, PkgB>>
    /\ declared[PkgA] = BlobB
    /\ declared[PkgB] = BlobA
    /\ popped = 3

(***************************************************************************)
(* Properties of install_tar taken alone (SpecTar).                        *)
(***************************************************************************)
\* a run of install_tar has returned (it raised nothing)
TarReturned == pc = "tar" /\ tar_runs > 0 /\ ~Raised(exc)

\* the members of the archive that are packaging metadata and whose
\* relative path ends with "/requires.txt"
RequiresMembers ==
    {i \in 1..Len(tar_members) :
        /\ MetadataOnly(RelName(tar_members[i].name))
        /\ EndsWith(RelName(tar_members[i].name), RequiresSuffix)}

LastOf(S) == CHOOSE i \in S : \A j \in S : j <= i

\* C11: install_tar returns a dependency blob exactly when the archive has
\* a metadata-only member whose relative path ends with "/requires.txt";
\* the blob is the whole payload of the last such member, and no other
\* member (a requires.txt outside the metadata included) contributes.
C11_DepsFromLastRequires ==
    TarReturned =>
        IF RequiresMembers = {} THEN tar_meta = EmptyMeta
        ELSE /\ tar_meta.present
             /\ tar_meta.deps = tar_members[LastOf(RequiresMembers)].data

\* two requires.txt members with different payloads: the second is returned
C11_Witness ==
    /\ TarReturned
    /\ \E i, j \in RequiresMembers :
          /\ i < j
          /\ tar_members[i].data # tar_members[j].data
          /\ tar_meta.deps = tar_members[j].data

\* C12: a member whose name is empty once its first path segment is
\* stripped ("pkg/", or a name without "/") is skipped whatever its type:
\* no directory is created and no file is opened or written for it.
C12_RootEntrySkipped ==
    \A e \in log : RelName(e.member) = <<>> => e.op \notin {"mkdir", "open"}

\* the members install_tar is to write: neither packaging metadata nor a
\* directory; and the path each is to be written at
FileMembers ==
    {i \in 1..Len(tar_members) :
        /\ ~MetadataOnly(RelName(tar_members[i].name))
        /\ tar_members[i].type # DIRTYPE}

DirMembers == {i \in 1..Len(tar_members) : tar_members[i].type = DIRTYPE}

DestOf(i) == install_path \o RelName(tar_members[i].name)

\* C13 as stated: after install_tar the destination holds exactly one file
\* per non-metadata, non-directory member, at root + (name minus its first
\* segment), with the payload of that member as content, and no file for a
\* directory-type member.
C13_OneFilePerMember ==
    TarReturned =>
        /\ DOMAIN files = {DestOf(i) : i \in FileMembers}
        /\ \A i \in FileMembers : files[DestOf(i)] = tar_members[i].data
        /\ \A i \in DirMembers : DestOf(i) \notin DOMAIN files

\* C13, amended: after install_tar returns the destination holds exactly
\* one file per path root + (name minus its first segment) of the
\* non-metadata, non-directory members, its content the payload of the last
\* member of that path, byte for byte, and no file for a directory-type
\* member.
C13_OneFilePerPath ==
    TarReturned =>
        /\ DOMAIN files = {DestOf(i) : i \in FileMembers}
        /\ \A i \in FileMembers :
              LET same == {j \in FileMembers : DestOf(j) = DestOf(i)}
              IN files[DestOf(i)] = tar_members[LastOf(same)].data
        /\ \A i \in DirMembers : DestOf(i) \notin DOMAIN files

\* a payload longer than two buffers and a file in a subdirectory, both
\* written in one run
C13_Witness ==
    /\ TarReturned
    /\ Cardinality(DOMAIN files) = 2
    /\ \E f \in DOMAIN files : Len(files[f]) > 2 * FileBufSize
    /\ \E i \in FileMembers : ParentDir(DestOf(i)) \in dirs /\ ParentDir(DestOf(i)) # DirOpt

\* C14: extraction is idempotent.  A second run of install_tar on the same
\* archive into the same destination ends as the first did (it returns
\* when the first returned) and leaves the files, contents and directories
\* the first run left: existing directories are tolerated and existing
\* files overwritten with the same content.
C14_ExtractIdempotent ==
    tar_runs >= 2 =>
        /\ ~Raised(tar_first.exc) => ~Raised(exc)
        /\ Outcome(exc, tar_meta, dirs, files) = tar_first

\* a second run that returned, over a file its first run wrote in a
\* directory its first run made
C14_Witness ==
    /\ tar_runs = 2
    /\ TarReturned
    /\ ~Raised(tar_first.exc)
    /\ \E i \in FileMembers :
          /\ DestOf(i) \in DOMAIN tar_first.files
          /\ ParentDir(DestOf(i)) \in tar_first.dirs \ InitialDirs
          /\ [op |-> "mkdir", path |-> ParentDir(DestOf(i)), member |-> tar_members[i].name] \in log

\* the directories a file path lies in, the root included for an absolute
\* path
Ancestors(path) ==
    {IF k = 1 THEN <<"/">> ELSE SubSeq(path, 1, k - 1) :
        k \in {j \in 1..Len(path) : path[j] = "/"}}

\* C17: for every destination file path, one under an absolute root
\* included, every ancestor directory of the path exists at its true
\* location when _makedirs returns, and _makedirs raises only when a
\* directory could not be made: an existing directory is no error.
C17_AncestorsExist ==
    /\ \A e \in log :
          (e.op = "open" /\ RelName(e.member) # <<>>) =>
              \A a \in Ancestors(e.path) : DirExists(dirs, a)
    /\ (Raised(exc) /\ exc.origin = "_makedirs" /\ RelName(tar_cur) # <<>>) =>
          \E a \in Ancestors(install_path \o RelName(tar_cur)) : ~DirExists(dirs, a)

(***************************************************************************)
(* Properties of url_open taken alone (SpecUrl).                           *)
(***************************************************************************)
\* the warnings among the messages msgs
Warnings(msgs) ==
    {k \in 1..Len(msgs) : msgs[k].text = "Warning: SSL certificate is not validated"}

\* call i established an encrypted connection
Encrypted(i) == url_calls[i].proto = "https:" /\ url_calls[i].conn = "ok"

FirstEncrypted(i) == Encrypted(i) /\ \A j \in 1..(i - 1) : ~Encrypted(j)

\* C15: over the url_open calls of one process the certificate warning is
\* printed exactly once, by the first call that establishes an encrypted
\* connection, never by a plain call and never again.
C15_WarnedOnce ==
    /\ \A i \in 1..Len(url_calls) :
          Cardinality(Warnings(url_calls[i].printed)) = IF FirstEncrypted(i) THEN 1 ELSE 0
    /\ Cardinality(Warnings(out)) = IF \E i \in 1..Len(url_calls) : Encrypted(i) THEN 1 ELSE 0

\* a plain call, then two encrypted ones: the first of them warned
C15_Witness ==
    /\ Len(url_calls) = 3
    /\ url_calls[1].proto = "http:" /\ url_calls[1].conn = "ok"
    /\ Encrypted(2) /\ Encrypted(3)
    /\ Warnings(url_calls[2].printed) # {}
    /\ Warnings(url_calls[3].printed) = {}

\* the status token of a response: the second whitespace-separated word of
\* its first line, <<>> when there is none
StatusToken(lines) ==
    IF lines = <<>> THEN <<>>
    ELSE LET toks == SplitWs(lines[1], Len(lines[1]))
         IN IF Len(toks) >= 2 THEN toks[2] ELSE <<>>

\* the blank lines after the status line
BlankLines(lines) == {i \in 2..Len(lines) : lines[i] = CRLF}

\* C16: url_open returns a stream exactly when the status token is 200 and
\* a blank line ending the headers is read, the stream then standing right
\* after that line; a response that ends before the blank line makes it
\* raise and return no stream.
C16_StreamIffOkAndBlank ==
    (pc = "url_open" /\ url_req.conn = "ok") =>
        LET blanks == BlankLines(url_req.lines)
        IN /\ url_res.returned <=> (StatusToken(url_req.lines) = Status200 /\ blanks # {})
           /\ url_res.returned =>
                 url_res.pos = CHOOSE i \in blanks : \A j \in blanks : i <= j
           /\ blanks = {} => Raised(url_res.exc)
           /\ url_res.returned <=> ~Raised(url_res.exc)

====
